---- MODULE Spec2Model ----
(***************************************************************************)
(* The fuzzy picker of helix-term (src/helix-term/src/ui/picker.rs) and    *)
(* its query parser (src/helix-term/src/ui/picker/query.rs).               *)
(*                                                                         *)
(* Text is a sequence of one-character strings.  The matcher (nucleo) is   *)
(* an external component: it is modelled by the item store the injectors   *)
(* write to, the per-column pattern, and the snapshot that only a tick     *)
(* replaces.                                                               *)
(***************************************************************************)
EXTENDS Integers, Sequences, FiniteSets, TLC

VARIABLES
    version,            \* Picker::version / Injector::picker_version (shared AtomicUsize)
    injectors,          \* every Injector handle made so far: [version, live]
    items,              \* the matcher's current item store (push order)
    pattern,            \* matcher.pattern: matcher column index -> text
    snapshot,           \* matcher.snapshot(): [items, matched]
    cursor,             \* Picker::cursor
    completion_height,  \* Picker::completion_height
    line,               \* Picker::prompt.line()
    query,              \* Picker::query (column name -> pattern)
    show_preview,       \* Picker::show_preview
    file_fn,            \* Picker::file_fn.is_some()
    cleared,            \* the matcher was restarted and has published nothing since
    pstate,             \* "open", "last" (popped, kept as last_picker), "dropped"
    preview_cache,      \* Picker::preview_cache: path -> CachedPreview
    files,              \* the file system, as File::open and Document::open see it
    documents,          \* paths of the documents open in the editor
    read_buffer,        \* Picker::read_buffer: the bytes in it, each by its kind
    frame,              \* the layout of the frame rendered last
    in_flight,          \* pushes of producer threads between check and submission
    walk,               \* a call of select_next_sibling or select_prev_sibling
    dyn_query,          \* DynamicPicker::query: the query last dispatched
    jobs,               \* futures of query_callback not yet resolved, by query
    last                \* the operation that produced this state, with its result

\* the fields of the Picker outside its preview
picker_vars == <<version, injectors, items, pattern, snapshot, cleared, cursor,
                 completion_height, line, query, show_preview, pstate>>

preview_vars == <<preview_cache, files, documents, read_buffer>>

layout_vars == <<file_fn, frame>>

producer_vars == <<in_flight>>

dyn_vars == <<dyn_query, jobs>>

object_vars == <<walk>>

vars == <<picker_vars, preview_vars, dyn_vars, layout_vars, producer_vars, object_vars, last>>

----------------------------------------------------------------------------
(* Bounds of the model *)

\* close/drop are disabled once the counter reaches this value
MaxVersion == 2
\* number of Injector handles ever made
MaxInjectors == 2
\* length of the matcher's item store
MaxItems == 2
\* u32::MAX of the cursor arithmetic, scaled to the model
CursorMax == 9
\* one item of the model's store stands for this many candidates in the
\* item count that close_fn compares with the threshold
ItemWeight == 50000
\* futures of query_callback in flight at once
MaxJobs == 2
\* length of the inputs of parse that are enumerated character by character
MaxInput == 4
\* number of space-separated tokens of the inputs of parse built from tokens
MaxTokens == 3

----------------------------------------------------------------------------
(* Program constants *)

LARGE_PICKER_THRESHOLD == 100000

\* the candidates; their text in the filtered columns is ItemText
Items == {1, 2, 3}

\* Column schema: name, filter flag.  Column 2 is rendered but not matched.
Columns == << [name |-> <<"p">>, filter |-> TRUE],
              [name |-> <<"d">>, filter |-> FALSE],
              [name |-> <<"k">>, filter |-> TRUE] >>

primary_column == 1

column_names == [i \in 1..Len(Columns) |-> Columns[i].name]

\* Column::format_text of each item, per column.  Items 2 and 3 show the
\* same text in the primary column, so the matcher ranks them equally and
\* keeps them in push order.
ItemText(item, col) ==
    CASE col = 1 -> (CASE item = 1 -> <<"a">>
                       [] OTHER    -> <<"a", "b">>)
      [] col = 2 -> <<"d">>
      [] OTHER   -> (CASE item = 2 -> <<"y">>
                       [] OTHER    -> <<"x">>)

\* lines the prompt can hold after it consumed an event
PromptLines == { <<>>,
                 <<"a">>,
                 <<"a", "b">>,
                 <<"b">>,
                 <<"%", "k", ":", "x">>,
                 <<"a", " ">> }

\* argument lists of set_options
OptionLists == { <<>>, <<2>>, <<1, 2, 3>> }

\* amounts passed to move_by
Amounts == {0, 1, 2, 5, CursorMax}

\* terminal heights passed to required_size
Heights == {3, 7}

\* paths that file_fn yields for the selection
Paths == {"f", "g"}

\* biggest file size to preview, in bytes
MAX_FILE_SIZE_FOR_PREVIEW == 10 * 1024 * 1024

\* the least area width that is to show the preview
MIN_AREA_WIDTH_FOR_PREVIEW == 72

\* a path with no file behind it: File::open (or the metadata call) fails
Missing ==
    [exists |-> FALSE, binary |-> FALSE, size |-> 0, decodes |-> FALSE,
     read |-> "ok"]

\* what a path can hold: nothing, text of exactly the biggest size, text one
\* byte bigger, binary content of any size, a file Document::open rejects,
\* and binary content whose read fails once some bytes have arrived.  read
\* is the outcome of read_to_end on the first 1024 bytes.
FileStates ==
    { Missing,
      [exists |-> TRUE, binary |-> FALSE, size |-> MAX_FILE_SIZE_FOR_PREVIEW,
       decodes |-> TRUE, read |-> "ok"],
      [exists |-> TRUE, binary |-> FALSE, size |-> MAX_FILE_SIZE_FOR_PREVIEW + 1,
       decodes |-> TRUE, read |-> "ok"],
      [exists |-> TRUE, binary |-> TRUE, size |-> MAX_FILE_SIZE_FOR_PREVIEW + 1,
       decodes |-> FALSE, read |-> "ok"],
      [exists |-> TRUE, binary |-> FALSE, size |-> 1, decodes |-> FALSE,
       read |-> "ok"],
      [exists |-> TRUE, binary |-> TRUE, size |-> 1, decodes |-> FALSE,
       read |-> "partial"] }

\* areas passed to render: widths around the least preview width, heights
\* that leave no, one and two rows for the items
Areas == { [width |-> w, height |-> h] : w \in {71, 72, 73}, h \in {4, 6, 7} }

\* the picture before the first frame
NoFrame ==
    [area |-> [width |-> 0, height |-> 0], preview |-> FALSE,
     picker_width |-> 0, preview_width |-> 0, rows |-> 0, offset |-> 0,
     end |-> 0]

Forward == "Forward"
Backward == "Backward"

----------------------------------------------------------------------------
(* Helpers on text *)

StartsWith(s, prefix) ==
    /\ Len(prefix) <= Len(s)
    /\ SubSeq(s, 1, Len(prefix)) = prefix

Min(a, b) == IF a <= b THEN a ELSE b

Max(a, b) == IF a >= b THEN a ELSE b

saturating_add(a, b) == Min(a + b, CursorMax)

saturating_sub(a, b) == IF b >= a THEN 0 ELSE a - b

----------------------------------------------------------------------------
(* query::parse *)

\* the typed field name taken as the key, whatever the columns are
ResolveFieldVerbatim(names, text) == {text}

\* the first column that begins with the typed text, whatever its length
ResolveFieldFirst(names, text) ==
    LET cand == {i \in 1..Len(names) : StartsWith(names[i], text)}
    IN  IF cand = {} THEN {}
        ELSE {names[CHOOSE i \in cand : \A j \in cand : i <= j]}

\* column_names.iter().filter(|col| col.starts_with(&text)).min_by_key(|col| col.len()):
\* a redirect that keeps the typed text as a column of its own when no name matches
ResolveFieldUndeclared(names, text) ==
    LET cand == {i \in 1..Len(names) : StartsWith(names[i], text)}
    IN  IF cand = {} THEN {text}
        ELSE LET best == CHOOSE i \in cand :
                            \A j \in cand : \/ Len(names[i]) < Len(names[j])
                                            \/ (Len(names[i]) = Len(names[j]) /\ i <= j)
             IN  {names[best]}

\* the shortest matching name, the first of them in declaration order; {} for None
ResolveField(names, text) ==
    LET cand == {i \in 1..Len(names) : StartsWith(names[i], text)}
    IN  IF cand = {} THEN {}
        ELSE LET best == CHOOSE i \in cand :
                            \A j \in cand : \/ Len(names[i]) < Len(names[j])
                                            \/ (Len(names[i]) = Len(names[j]) /\ i <= j)
             IN  {names[best]}

\* the parser's locals before the first character
ParseStart ==
    [fields |-> <<>>, escaped |-> FALSE, quoted |-> FALSE, in_field |-> FALSE,
     field |-> {}, text |-> <<>>]

\* finish_field!() putting the new text in front of the column's pattern
finish_fieldPrepend(st, primary_field) ==
    LET key == IF st.field = {} THEN primary_field ELSE CHOOSE n \in st.field : TRUE
    IN  [st EXCEPT !.field = {},
                   !.fields = [k \in DOMAIN st.fields \cup {key} |->
                                  IF k # key THEN st.fields[k]
                                  ELSE IF key \in DOMAIN st.fields
                                       THEN st.text \o <<" ">> \o st.fields[key]
                                       ELSE st.text],
                   !.text = <<>>]

\* finish_field!() replacing the column's pattern by the new text
finish_fieldOverwrite(st, primary_field) ==
    LET key == IF st.field = {} THEN primary_field ELSE CHOOSE n \in st.field : TRUE
    IN  [st EXCEPT !.field = {},
                   !.fields = [k \in DOMAIN st.fields \cup {key} |->
                                  IF k = key THEN st.text ELSE st.fields[k]],
                   !.text = <<>>]

\* finish_field!(): the text goes to the redirected column, or to the primary one
finish_field(st, primary_field) ==
    LET key == IF st.field = {} THEN primary_field ELSE CHOOSE n \in st.field : TRUE
    IN  IF key \in DOMAIN st.fields
        THEN [st EXCEPT !.field = {},
                        !.fields = [st.fields EXCEPT ![key] = @ \o <<" ">> \o st.text],
                        !.text = <<>>]
        ELSE [st EXCEPT !.field = {},
                        !.fields = [k \in DOMAIN st.fields \cup {key} |->
                                       IF k = key THEN st.text ELSE st.fields[k]],
                        !.text = <<>>]

\* one iteration of `for ch in input.chars()`: the arms of the match, in order
ParseChar(st, ch, names, primary_field) ==
    CASE ch = "\\" -> [st EXCEPT !.escaped = ~st.escaped]
      [] ch # "\\" /\ st.escaped ->
            [st EXCEPT !.text = IF ch \in {"%", "\""} THEN st.text \o <<ch>>
                                ELSE st.text \o <<"\\", ch>>,
                       !.escaped = FALSE]
      [] ch # "\\" /\ ~st.escaped /\ ch = "\"" -> [st EXCEPT !.quoted = ~st.quoted]
      [] ch # "\\" /\ ~st.escaped /\ ch \in {"%", ":", " "} /\ st.quoted ->
            [st EXCEPT !.text = st.text \o <<ch>>]
      [] ch # "\\" /\ ~st.escaped /\ ch \in {"%", " "} /\ ~st.quoted /\ st.text # <<>> ->
            [finish_field(st, primary_field) EXCEPT !.in_field = (ch = "%")]
      [] ch # "\\" /\ ~st.escaped /\ ch = "%" /\ ~st.quoted /\ st.text = <<>> ->
            [st EXCEPT !.in_field = TRUE]
      [] ch # "\\" /\ ~st.escaped /\ ch = ":" /\ ~st.quoted /\ st.in_field ->
            [st EXCEPT !.field = ResolveField(names, st.text),
                       !.text = <<>>,
                       !.in_field = FALSE]
      [] OTHER -> [st EXCEPT !.text = st.text \o <<ch>>]

RECURSIVE ParseLoop(_, _, _, _)
ParseLoop(st, input, names, primary_field) ==
    IF input = <<>> THEN st
    ELSE ParseLoop(ParseChar(st, Head(input), names, primary_field),
                   Tail(input), names, primary_field)

\* parse(column_names, primary_column, input): column name -> pattern
parse(names, primary, input) ==
    LET primary_field == names[primary]
        st == ParseLoop(ParseStart, input, names, primary_field)
    IN  IF ~st.in_field /\ st.text # <<>>
        THEN finish_field(st, primary_field).fields
        ELSE st.fields

\* PickerQuery::get(name) with the callers' default of the empty pattern
QueryGet(q, name) == IF name \in DOMAIN q THEN q[name] ELSE <<>>

\* column name lists parse is called with: a shorter name declared after a
\* longer one with the same beginning, and two names of equal length
NameLists == { << <<"p">>, <<"a", "b", "b">>, <<"a", "b">> >>,
               << <<"a", "b">>, <<"b", "a">> >> }

\* the characters of the inputs: letters and every character parse treats
\* specially
InputChars == {"a", "b", " ", "%", ":", "\\", "\""}

\* every input of at most MaxInput characters
RawInputs == UNION { [1..n -> InputChars] : n \in 0..MaxInput }

\* tokens: a word, or a word behind a field token %<prefix>:
InputTokens ==
    { word : word \in { <<"a">>, <<"b">> } }
    \cup { <<"%">> \o prefix \o <<":">> \o word :
              prefix \in { <<>>, <<"a">>, <<"b">>, <<"a", "b">> },
              word \in { <<"a">>, <<"b">> } }

RECURSIVE JoinTokens(_)
JoinTokens(tokens) ==
    IF Len(tokens) = 1 THEN tokens[1]
    ELSE tokens[1] \o <<" ">> \o JoinTokens(Tail(tokens))

\* inputs of up to MaxTokens tokens separated by single spaces
TokenInputs ==
    { JoinTokens(tokens) :
        tokens \in UNION { [1..n -> InputTokens] : n \in 1..MaxTokens } }

\* the arguments of a call of parse
ParseArgs ==
    { [names |-> names, primary |-> primary, input |-> input] :
        names \in NameLists, primary \in 1..3, input \in RawInputs \cup TokenInputs }

----------------------------------------------------------------------------
(* The matcher, as the picker uses it *)

\* indices of the columns with filter = true, in declaration order: the
\* matcher's column i holds the text of column FilteredColumns[i]
FilteredColumns ==
    SelectSeq([i \in 1..Len(Columns) |-> i], LAMBDA i : Columns[i].filter)

\* inject_nucleo_item: the row handed to nucleo::Injector::push
MatcherRow(item) ==
    [data |-> item,
     matcher_columns |-> [i \in 1..Len(FilteredColumns) |->
                             ItemText(item, FilteredColumns[i])]]

inject_nucleo_item(store, item) == Append(store, MatcherRow(item))

RECURSIVE InjectAll(_, _)
InjectAll(store, options) ==
    IF options = <<>> THEN store
    ELSE InjectAll(inject_nucleo_item(store, Head(options)), Tail(options))

RECURSIVE IsSubsequence(_, _)
IsSubsequence(needle, haystack) ==
    IF needle = <<>> THEN TRUE
    ELSE IF haystack = <<>> THEN FALSE
    ELSE IF Head(needle) = Head(haystack)
         THEN IsSubsequence(Tail(needle), Tail(haystack))
         ELSE IsSubsequence(needle, Tail(haystack))

\* the space-separated atoms of a pattern
RECURSIVE Atoms(_, _)
Atoms(pat, cur) ==
    IF pat = <<>> THEN (IF cur = <<>> THEN {} ELSE {cur})
    ELSE IF Head(pat) = " "
         THEN (IF cur = <<>> THEN {} ELSE {cur}) \cup Atoms(Tail(pat), <<>>)
         ELSE Atoms(Tail(pat), Append(cur, Head(pat)))

\* a row matches when every atom of every column's pattern fuzzy-matches
\* that column's text
RowMatches(row, pat) ==
    \A i \in 1..Len(pat) :
        \A atom \in Atoms(pat[i], <<>>) : IsSubsequence(atom, row.matcher_columns[i])

\* what a completed matcher run publishes for a store and a pattern; rows
\* of equal rank stay in push order
TakeSnapshot(store, pat) ==
    [items |-> store,
     matched |-> SelectSeq(store, LAMBDA row : RowMatches(row, pat))]

item_count(snap) == Len(snap.items)

matched_item_count(snap) == Len(snap.matched)

\* Picker::selection: snapshot.get_matched_item(cursor); {} for None
selection ==
    IF cursor < matched_item_count(snapshot)
    THEN {snapshot.matched[cursor + 1].data}
    ELSE {}

EmptyPattern == [i \in 1..Len(FilteredColumns) |-> <<>>]

----------------------------------------------------------------------------
(* helix-core object.rs: selecting the sibling of a syntax node *)

\* the text under the tree: eight characters in nine bytes, the character
\* at index 1 taking two bytes
TextChars == 8

char_to_byte(c) == IF c <= 1 THEN c ELSE c + 1

byte_to_char(b) == IF b <= 1 THEN b ELSE b - 1

\* syntax trees over the text: nodes are numbered from the root (1), 0 is no
\* node, children are in document order, spans are in bytes
LeafTree ==
    [ parent   |-> <<0>>,
      children |-> << <<>> >>,
      start    |-> <<0>>,
      end      |-> <<9>> ]

NestedTree ==
    [ parent   |-> <<0, 1, 1, 1, 2, 2, 3, 6>>,
      children |-> << <<2, 3, 4>>, <<5, 6>>, <<7>>, <<>>, <<>>, <<8>>, <<>>, <<>> >>,
      start    |-> <<0, 0, 3, 6, 0, 1, 3, 1>>,
      end      |-> <<9, 3, 6, 9, 1, 3, 6, 3>> ]

ChainTree ==
    [ parent   |-> <<0, 1, 2>>,
      children |-> << <<2>>, <<3>>, <<>> >>,
      start    |-> <<0, 0, 3>>,
      end      |-> <<9, 9, 6>> ]

SyntaxTrees == <<LeafTree, NestedTree, ChainTree>>

Nodes(tree) == DOMAIN tree.parent

\* Range { anchor, head } in characters
Ranges == { [anchor |-> a, head |-> h] : a \in 0..TextChars, h \in 0..TextChars }

range_direction(range) == IF range.head < range.anchor THEN "Backward" ELSE "Forward"

into_byte_range(range) ==
    LET from == IF range.anchor <= range.head THEN range.anchor ELSE range.head
        to   == IF range.anchor <= range.head THEN range.head ELSE range.anchor
    IN  <<char_to_byte(from), char_to_byte(to)>>

from_node(tree, node, dir) ==
    LET from == byte_to_char(tree.start[node])
        to   == byte_to_char(tree.end[node])
    IN  IF dir = "Forward" THEN [anchor |-> from, head |-> to]
                           ELSE [anchor |-> to, head |-> from]

Spans(tree, n, from, to) == tree.start[n] <= from /\ to <= tree.end[n]

\* the nodes the cursor may be on after reset_to_byte_range: the smallest
\* ones that span the bytes (several when a node has the span of its parent)
reset_to_byte_range(tree, from, to) ==
    { n \in Nodes(tree) :
        /\ Spans(tree, n, from, to)
        /\ \A m \in Nodes(tree) :
              Spans(tree, m, from, to)
                 => tree.end[n] - tree.start[n] <= tree.end[m] - tree.start[m] }

IndexIn(seq, n) == CHOOSE i \in DOMAIN seq : seq[i] = n

goto_next_siblingWrapping(tree, n) ==
    IF tree.parent[n] = 0 THEN 0
    ELSE LET siblings == tree.children[tree.parent[n]]
             i == IndexIn(siblings, n)
         IN  IF Len(siblings) = 1 THEN 0
             ELSE IF i < Len(siblings) THEN siblings[i + 1] ELSE siblings[1]

\* the node the cursor moves to, 0 when the move fails
goto_next_sibling(tree, n) ==
    IF tree.parent[n] = 0 THEN 0
    ELSE LET siblings == tree.children[tree.parent[n]]
             i == IndexIn(siblings, n)
         IN  IF i < Len(siblings) THEN siblings[i + 1] ELSE 0

goto_prev_sibling(tree, n) ==
    IF tree.parent[n] = 0 THEN 0
    ELSE LET siblings == tree.children[tree.parent[n]]
             i == IndexIn(siblings, n)
         IN  IF i > 1 THEN siblings[i - 1] ELSE 0

goto_parent(tree, n) == tree.parent[n]

NoWalk == [pc |-> "idle"]

\* select_next_sibling (next) or select_prev_sibling on one range of the
\* selection, up to the loop: the cursor is reset to the range
SelectSibling(next, t, range) ==
    /\ walk.pc # "loop"
    /\ LET bytes == into_byte_range(range)
       IN  \E node \in reset_to_byte_range(SyntaxTrees[t], bytes[1], bytes[2]) :
              walk' = [pc |-> "loop", tree |-> t, next |-> next, range |-> range,
                       start |-> node, node |-> node, climbed |-> 0]
    /\ last' = [op |-> IF next THEN "select_next_sibling" ELSE "select_prev_sibling"]
    /\ UNCHANGED <<picker_vars, preview_vars, dyn_vars, layout_vars, producer_vars>>

\* one test of the loop's condition, with the body when the move failed
SiblingLoop ==
    /\ walk.pc = "loop"
    /\ LET tree    == SyntaxTrees[walk.tree]
           sibling == IF walk.next THEN goto_next_sibling(tree, walk.node)
                                   ELSE goto_prev_sibling(tree, walk.node)
           done    == [pc |-> "done", tree |-> walk.tree, next |-> walk.next,
                       range |-> walk.range, start |-> walk.start,
                       node |-> walk.node, climbed |-> walk.climbed,
                       result |-> walk.range]
       IN  IF sibling # 0
           THEN walk' = [done EXCEPT !.node = sibling,
                                     !.result = from_node(tree, sibling, range_direction(walk.range))]
           ELSE IF goto_parent(tree, walk.node) = 0
                THEN walk' = done
                ELSE walk' = [walk EXCEPT !.node = goto_parent(tree, walk.node),
                                          !.climbed = @ + 1]
    /\ last' = [op |-> "sibling_loop"]
    /\ UNCHANGED <<picker_vars, preview_vars, dyn_vars, layout_vars, producer_vars>>

----------------------------------------------------------------------------
(* Construction *)

\* Picker::new(columns, primary_column, options, ..): no injector exists yet
InitNew ==
    /\ \E options \in OptionLists : items = InjectAll(<<>>, options)
    /\ injectors = <<>>

\* Picker::stream + Picker::with_stream: the paired injector has version 0
InitStream ==
    /\ items = <<>>
    /\ injectors = << [version |-> 0, live |-> TRUE] >>

\* Picker::with
Init ==
    /\ InitNew \/ InitStream
    /\ version = 0
    /\ pattern = EmptyPattern
    /\ snapshot = [items |-> <<>>, matched |-> <<>>]
    /\ cleared = FALSE
    /\ cursor = 0
    /\ completion_height = 0
    /\ line = <<>>
    /\ query = <<>>
    /\ show_preview = TRUE
    /\ pstate = "open"
    /\ preview_cache = <<>>
    /\ files = [path \in Paths |-> Missing]
    /\ documents = {}
    /\ read_buffer = <<>>
    /\ file_fn = FALSE
    /\ frame = NoFrame
    /\ in_flight = {}
    /\ walk = NoWalk
    /\ dyn_query = <<>>
    /\ jobs = <<>>
    /\ last = [op |-> "new"]

----------------------------------------------------------------------------
(* Injector *)

\* Picker::injector
NewInjector ==
    /\ pstate = "open"
    /\ Len(injectors) < MaxInjectors
    /\ injectors' = Append(injectors, [version |-> version, live |-> TRUE])
    /\ last' = [op |-> "injector", inj |-> Len(injectors) + 1]
    /\ UNCHANGED <<version, items, pattern, snapshot, cleared, cursor,
                   completion_height, line, query, show_preview, pstate>>

\* a clone that reads the picker's counter instead of copying its source
CloneInjectorCurrent(i) ==
    /\ Len(injectors) < MaxInjectors
    /\ injectors' = Append(injectors, [version |-> version,
                                       live |-> injectors[i].live])
    /\ last' = [op |-> "clone", inj |-> Len(injectors) + 1, from |-> i]
    /\ UNCHANGED <<version, items, pattern, snapshot, cleared, cursor,
                   completion_height, line, query, show_preview, pstate>>

\* Clone for Injector
CloneInjector(i) ==
    /\ Len(injectors) < MaxInjectors
    /\ injectors' = Append(injectors, [version |-> injectors[i].version,
                                       live |-> injectors[i].live])
    /\ last' = [op |-> "clone", inj |-> Len(injectors) + 1, from |-> i]
    /\ UNCHANGED <<version, items, pattern, snapshot, cleared, cursor,
                   completion_height, line, query, show_preview, pstate>>

\* a check that lets every push through
PushAcceptedAlways(inj) == TRUE

\* push checking for a newer generation only
PushAcceptedOlder(inj) == inj.version <= version

\* the check at the head of Injector::push
PushAccepted(inj) == inj.version = version

\* Injector::push.  An injector made before the last restart of the matcher
\* (or whose picker is gone) writes to a store the matcher no longer reads.
Push(i, item) ==
    /\ (PushAccepted(injectors[i]) /\ injectors[i].live) => Len(items) < MaxItems
    /\ IF PushAccepted(injectors[i])
       THEN /\ items' = IF injectors[i].live
                        THEN inject_nucleo_item(items, item)
                        ELSE items
            /\ last' = [op |-> "push", inj |-> i, res |-> "Ok",
                        submitted |-> <<MatcherRow(item)>>]
       ELSE /\ items' = items
            /\ last' = [op |-> "push", inj |-> i, res |-> "InjectorShutdown",
                        submitted |-> <<>>]
    /\ UNCHANGED <<version, injectors, pattern, snapshot, cleared, cursor,
                   completion_height, line, query, show_preview, pstate>>

\* Injector::push on a producer thread, up to the return of the load of
\* picker_version: the check of the generation.  A push that passed is in
\* flight until it submits; a handle has one push in flight at a time.
PushCheck(i, item) ==
    /\ \A p \in in_flight : p.inj # i
    /\ IF PushAccepted(injectors[i])
       THEN /\ in_flight' = in_flight \cup { [inj |-> i, item |-> item] }
            /\ last' = [op |-> "push_check", inj |-> i, res |-> "passed"]
       ELSE /\ in_flight' = in_flight
            /\ last' = [op |-> "push_check", inj |-> i, res |-> "InjectorShutdown"]
    /\ UNCHANGED <<picker_vars, preview_vars, dyn_vars, layout_vars, object_vars>>

\* Injector::push after its check: inject_nucleo_item and Ok(()).  Nothing
\* looks at the counter again.
PushSubmit(p) ==
    /\ p \in in_flight
    /\ injectors[p.inj].live => Len(items) < MaxItems
    /\ in_flight' = in_flight \ {p}
    /\ items' = IF injectors[p.inj].live
                THEN inject_nucleo_item(items, p.item)
                ELSE items
    /\ last' = [op |-> "push_submit", inj |-> p.inj, res |-> "Ok",
                submitted |-> <<MatcherRow(p.item)>>]
    /\ UNCHANGED <<version, injectors, pattern, snapshot, cleared, cursor,
                   completion_height, line, query, show_preview, pstate,
                   preview_vars, dyn_vars, layout_vars, object_vars>>

----------------------------------------------------------------------------
(* Picker: candidates and cursor *)

\* set_options advancing the generation like close does
SetOptionsVersionIncrement(v) == v + 1

\* what set_options does to the generation counter: nothing
SetOptionsVersion(v) == v

\* set_options injecting into the store it found
RestartedStoreKept(store) == store

\* matcher.restart(false): the store the new options are injected into
RestartedStore(store) == <<>>

\* Picker::set_options: matcher.restart(false), then one fresh matcher
\* injector takes the whole list; the snapshot stays until the next tick
SetOptions(new_options) ==
    /\ pstate = "open"
    /\ items' = InjectAll(RestartedStore(items), new_options)
    /\ cleared' = TRUE
    /\ injectors' = [i \in 1..Len(injectors) |-> [injectors[i] EXCEPT !.live = FALSE]]
    /\ version' = SetOptionsVersion(version)
    /\ last' = [op |-> "set_options", options |-> new_options]
    /\ UNCHANGED <<pattern, snapshot, cursor, completion_height, line, query,
                   show_preview, pstate>>

\* move_by going backward without adding len first
move_byNoWrap(cur, len, amount, direction) ==
    IF len = 0 THEN cur
    ELSE IF direction = Forward
         THEN saturating_add(cur, amount) % len
         ELSE saturating_sub(cur, amount) % len

\* the arithmetic of Picker::move_by on a cursor and a matched count
move_by(cur, len, amount, direction) ==
    IF len = 0 THEN cur
    ELSE IF direction = Forward
         THEN saturating_add(cur, amount) % len
         ELSE saturating_sub(saturating_add(cur, len), amount) % len

\* the forward move_by that the last operation was, or that only render
\* ticks have followed: <<[amount, from, len, steady]>>, else <<>>; steady
\* says that every tick since has left the matched count at len
Trip ==
    IF \/ last.op = "move_by" /\ last.direction = Forward
       \/ last.op = "render"
    THEN last.trip
    ELSE <<>>

TripAfterTick(snap) ==
    IF Trip = <<>> THEN <<>>
    ELSE << [Trip[1] EXCEPT !.steady = @ /\ matched_item_count(snap) = Trip[1].len] >>

\* Picker::move_by (Up/Shift-Tab/Ctrl-P and Down/Tab/Ctrl-N call it with 1)
MoveBy(amount, direction) ==
    /\ pstate = "open"
    /\ cursor' = move_by(cursor, matched_item_count(snapshot), amount, direction)
    /\ last' = [op |-> "move_by", amount |-> amount, direction |-> direction,
                len |-> matched_item_count(snapshot),
                trip |-> IF direction = Forward
                         THEN << [amount |-> amount, from |-> cursor,
                                  len |-> matched_item_count(snapshot),
                                  steady |-> TRUE] >>
                         ELSE Trip]
    /\ UNCHANGED <<version, injectors, items, pattern, snapshot, cleared,
                   completion_height, line, query, show_preview, pstate>>

\* Picker::page_up (PageUp, Ctrl-U)
PageUp ==
    /\ pstate = "open"
    /\ cursor' = move_by(cursor, matched_item_count(snapshot), completion_height, Backward)
    /\ last' = [op |-> "page_up"]
    /\ UNCHANGED <<version, injectors, items, pattern, snapshot, cleared,
                   completion_height, line, query, show_preview, pstate>>

\* Picker::page_down (PageDown, Ctrl-D)
PageDown ==
    /\ pstate = "open"
    /\ cursor' = move_by(cursor, matched_item_count(snapshot), completion_height, Forward)
    /\ last' = [op |-> "page_down"]
    /\ UNCHANGED <<version, injectors, items, pattern, snapshot, cleared,
                   completion_height, line, query, show_preview, pstate>>

\* Picker::to_start (Home)
ToStart ==
    /\ pstate = "open"
    /\ cursor' = 0
    /\ last' = [op |-> "to_start"]
    /\ UNCHANGED <<version, injectors, items, pattern, snapshot, cleared,
                   completion_height, line, query, show_preview, pstate>>

\* Picker::to_end (End)
ToEnd ==
    /\ pstate = "open"
    /\ cursor' = saturating_sub(matched_item_count(snapshot), 1)
    /\ last' = [op |-> "to_end"]
    /\ UNCHANGED <<version, injectors, items, pattern, snapshot, cleared,
                   completion_height, line, query, show_preview, pstate>>

\* Picker::toggle_preview (Ctrl-T)
TogglePreview ==
    /\ pstate = "open"
    /\ show_preview' = ~show_preview
    /\ last' = [op |-> "toggle_preview"]
    /\ UNCHANGED <<version, injectors, items, pattern, snapshot, cleared, cursor,
                   completion_height, line, query, pstate>>

header_height == IF Len(Columns) > 1 THEN 1 ELSE 0

\* Component::required_size
RequiredSize(height) ==
    /\ pstate = "open"
    /\ completion_height' = saturating_sub(height, 4 + header_height)
    /\ last' = [op |-> "required_size"]
    /\ UNCHANGED <<version, injectors, items, pattern, snapshot, cleared, cursor,
                   line, query, show_preview, pstate>>

----------------------------------------------------------------------------
(* Picker: prompt *)

\* the append hint handle_prompt_change passes for one column
AppendHint(old_query, name, pat) ==
    IF name \in DOMAIN old_query THEN StartsWith(pat, old_query[name]) ELSE FALSE

\* reparse calls that take the i-th declared column for matcher column i
ReparsesByDeclaration(old_query, new_query) ==
    [i \in 1..Len(FilteredColumns) |->
        LET name == Columns[i].name
            pat == QueryGet(new_query, name)
        IN  [column |-> i, pattern |-> pat,
             append |-> AppendHint(old_query, name, pat)]]

\* the reparse calls of handle_prompt_change for a changed query, in order
Reparses(old_query, new_query) ==
    [i \in 1..Len(FilteredColumns) |->
        LET name == Columns[FilteredColumns[i]].name
            pat == QueryGet(new_query, name)
        IN  [column |-> i, pattern |-> pat,
             append |-> AppendHint(old_query, name, pat)]]

\* Picker::prompt_handle_event: the prompt consumed the event (a key that is
\* no picker binding, or a paste) and now holds new_line; handle_prompt_change
PromptEvent(new_line) ==
    /\ pstate = "open"
    /\ line' = new_line
    /\ LET new_query == parse(column_names, primary_column, new_line)
       IN  IF new_query # query
           THEN /\ pattern' = [i \in 1..Len(FilteredColumns) |->
                                  Reparses(query, new_query)[i].pattern]
                /\ query' = new_query
                /\ last' = [op |-> "prompt", old_line |-> line, selected |-> selection,
                            reparsed |-> Reparses(query, new_query)]
           ELSE /\ UNCHANGED <<pattern, query>>
                /\ last' = [op |-> "prompt", old_line |-> line, selected |-> selection,
                            reparsed |-> <<>>]
    /\ UNCHANGED <<version, injectors, items, snapshot, cleared, cursor,
                   completion_height, show_preview, pstate>>

----------------------------------------------------------------------------
(* Picker: render *)

\* the prompt event this tick directly follows, with the matched rows and
\* the cursor it found: <<[old_line, selected, matched, cursor]>>, else <<>>
AfterPrompt ==
    IF last.op = "prompt"
    THEN << [old_line |-> last.old_line, selected |-> last.selected,
             matched |-> snapshot.matched, cursor |-> cursor] >>
    ELSE <<>>

\* render_picker without the clamp
ClampCursorNone(cur, snap) == cur

\* render_picker sending the cursor back to the first row
ClampCursorReset(cur, snap) == 0

\* the clamp of render_picker after a tick that reported a change
ClampCursor(cur, snap) == Min(cur, saturating_sub(matched_item_count(snap), 1))

\* render_picker, the matcher's run finished within the tick: it publishes
\* the first k items of the store under the current pattern
RenderPublish(k) ==
    /\ pstate = "open"
    /\ k >= (IF cleared THEN 0 ELSE item_count(snapshot))
    /\ snapshot' = TakeSnapshot(SubSeq(items, 1, k), pattern)
    /\ cleared' = FALSE
    /\ cursor' = ClampCursor(cursor, snapshot')
    /\ last' = [op |-> "render", changed |-> TRUE, published |-> TRUE,
                trip |-> TripAfterTick(snapshot'), after_prompt |-> AfterPrompt]
    /\ UNCHANGED <<version, injectors, items, pattern, completion_height, line,
                   query, show_preview, pstate>>

\* render_picker, the tick published nothing (time-out, or a cancelled run)
RenderStale(changed) ==
    /\ pstate = "open"
    /\ cursor' = IF changed THEN ClampCursor(cursor, snapshot) ELSE cursor
    /\ last' = [op |-> "render", changed |-> changed, published |-> FALSE,
                trip |-> Trip, after_prompt |-> <<>>]
    /\ UNCHANGED <<version, injectors, items, pattern, snapshot, cleared,
                   completion_height, line, query, show_preview, pstate>>

----------------------------------------------------------------------------
(* Picker: the frame *)

\* Picker::with_preview, called on the picker just constructed (the matcher's
\* path matching it switches on is not modelled)
WithPreview ==
    /\ last.op = "new"
    /\ file_fn' = TRUE
    /\ last' = [op |-> "with_preview"]
    /\ UNCHANGED <<picker_vars, preview_vars, dyn_vars, frame, producer_vars, object_vars>>

\* render: whether the area is split
render_preview(show, fn, area) ==
    show /\ fn /\ area.width > MIN_AREA_WIDTH_FOR_PREVIEW

\* render: the width of the picker's part
picker_width(show, fn, area) ==
    IF render_preview(show, fn, area) THEN area.width \div 2 ELSE area.width

\* render_picker: the rows left for the items inside the border, below the
\* prompt, its separator and the header
Rows(height) ==
    saturating_sub(saturating_sub(saturating_sub(height, 2), 2), header_height)

\* render_picker: the first item of the page the cursor is on
PageOffset(cur, rows) == cur - (cur % Max(1, rows))

\* a page end not cut at the number of matched items
PageEndUncut(offset, rows, count) == saturating_add(offset, rows)

\* render_picker: the end of the range of items requested from the snapshot
PageEnd(offset, rows, count) == Min(saturating_add(offset, rows), count)

\* the layout render and render_picker compute for an area
Frame(area, show, fn, cur, snap) ==
    LET width == picker_width(show, fn, area)
        rows == Rows(area.height)
        offset == PageOffset(cur, rows)
    IN  [area |-> area,
         preview |-> render_preview(show, fn, area),
         picker_width |-> width,
         preview_width |-> IF render_preview(show, fn, area)
                           THEN area.width - width ELSE 0,
         rows |-> rows,
         offset |-> offset,
         end |-> PageEnd(offset, rows, matched_item_count(snap))]

\* Component::render, the tick publishes the first k items
Render(area, k) ==
    /\ RenderPublish(k)
    /\ frame' = Frame(area, show_preview, file_fn, cursor', snapshot')
    /\ UNCHANGED <<file_fn, preview_vars, dyn_vars, producer_vars, object_vars>>

\* Component::render, the tick published nothing
RenderUnpublished(area, changed) ==
    /\ RenderStale(changed)
    /\ frame' = Frame(area, show_preview, file_fn, cursor', snapshot)
    /\ UNCHANGED <<file_fn, preview_vars, dyn_vars, producer_vars, object_vars>>

----------------------------------------------------------------------------
(* Picker: selection keys, close, drop *)

\* close_fn without its fetch_add
CloseVersionKept(v) == v

\* picker.version.fetch_add(1) in close_fn
CloseVersion(v) == v + 1

\* Drop without its fetch_add
DropVersionKept(v) == v

\* self.version.fetch_add(1) in Drop for Picker
DropVersion(v) == v + 1

\* close_fn discarding a picker of exactly the threshold as well
TooLargeInclusive(snap) == item_count(snap) * ItemWeight >= LARGE_PICKER_THRESHOLD

\* the test of close_fn: too large to keep as last_picker
TooLarge(snap) == item_count(snap) * ItemWeight > LARGE_PICKER_THRESHOLD

\* a callback invoked with the first candidate when nothing is selected
OnSelectFirstCandidate(action) ==
    IF selection = {} THEN << [item |-> 1, action |-> action] >>
    ELSE << [item |-> CHOOSE x \in selection : TRUE, action |-> action] >>

\* the calls of callback_fn a selection key makes
OnSelect(action) ==
    IF selection = {} THEN <<>>
    ELSE << [item |-> CHOOSE x \in selection : TRUE, action |-> action] >>

\* close_fn and the compositor callback it returns: a large picker is popped
\* and dropped, any other has its generation advanced and becomes last_picker
CloseFn(key, calls) ==
    /\ pstate = "open"
    /\ version < MaxVersion
    /\ IF TooLarge(snapshot)
       THEN /\ version' = DropVersion(version)
            /\ pstate' = "dropped"
            /\ injectors' = [i \in 1..Len(injectors) |->
                                [injectors[i] EXCEPT !.live = FALSE]]
       ELSE /\ version' = CloseVersion(version)
            /\ pstate' = "last"
            /\ UNCHANGED injectors
    /\ last' = [op |-> "key", key |-> key, on_select |-> calls, close |-> TRUE,
                retained |-> ~TooLarge(snapshot)]
    /\ UNCHANGED <<items, pattern, snapshot, cleared, cursor, completion_height,
                   line, query, show_preview>>

\* Esc, Ctrl-C
KeyClose(key) == CloseFn(key, <<>>)

\* Ctrl-S and Ctrl-V with their splits exchanged
SelectActionSwapped(key) ==
    CASE key = "Enter" -> "Replace"
      [] key = "CtrlS" -> "VerticalSplit"
      [] key = "CtrlV" -> "HorizontalSplit"

\* the Action each closing selection key passes to callback_fn
SelectAction(key) ==
    CASE key = "Enter" -> "Replace"
      [] key = "CtrlS" -> "HorizontalSplit"
      [] key = "CtrlV" -> "VerticalSplit"

\* Enter, Ctrl-S, Ctrl-V
KeySelect(key) == CloseFn(key, OnSelect(SelectAction(key)))

\* Alt-Enter
KeyAltEnter ==
    /\ pstate = "open"
    /\ last' = [op |-> "key", key |-> "AltEnter", on_select |-> OnSelect("Load"),
                close |-> FALSE, retained |-> FALSE]
    /\ UNCHANGED <<version, injectors, items, pattern, snapshot, cleared, cursor,
                   completion_height, line, query, show_preview, pstate>>

\* the last picker is pushed back onto the compositor
Reopen ==
    /\ pstate = "last"
    /\ pstate' = "open"
    /\ last' = [op |-> "reopen"]
    /\ UNCHANGED <<version, injectors, items, pattern, snapshot, cleared, cursor,
                   completion_height, line, query, show_preview>>

\* Drop for Picker: an open picker replaced, or a last_picker overwritten
Drop ==
    /\ pstate \in {"open", "last"}
    /\ version < MaxVersion
    /\ version' = DropVersion(version)
    /\ pstate' = "dropped"
    /\ injectors' = [i \in 1..Len(injectors) |-> [injectors[i] EXCEPT !.live = FALSE]]
    /\ last' = [op |-> "drop"]
    /\ UNCHANGED <<items, pattern, snapshot, cleared, cursor, completion_height,
                   line, query, show_preview>>

----------------------------------------------------------------------------
(* Picker: preview *)

\* the first bytes of a file, at most 1024 of them, as one byte of their kind
FirstBytes(file) == << IF file.binary THEN "b" ELSE "t" >>

\* content_inspector::inspect
inspect(bytes) ==
    IF \E i \in 1..Len(bytes) : bytes[i] = "b" THEN "BINARY" ELSE "TEXT"

\* the closure of get_preview that opens the file and reads its first bytes
\* into the read buffer: whether it returned Ok, the content type it found
\* and the read buffer it leaves.  A failed read returns through `?` with
\* the bytes read so far appended and the buffer not cleared.
ReadData(buffer, file) ==
    IF ~file.exists
    THEN [ok |-> FALSE, content_type |-> "NONE", read_buffer |-> buffer]
    ELSE IF file.read = "partial"
    THEN [ok |-> FALSE, content_type |-> "NONE",
          read_buffer |-> buffer \o FirstBytes(file)]
    ELSE LET n == Len(FirstBytes(file))
             filled == buffer \o FirstBytes(file)
         IN  [ok |-> TRUE, content_type |-> inspect(SubSeq(filled, 1, n)),
              read_buffer |-> <<>>]

\* the size test taking a file of exactly the biggest size for a large one
BuildPreviewInclusive(data, file) ==
    IF ~data.ok THEN "NotFound"
    ELSE IF data.content_type = "BINARY" THEN "Binary"
    ELSE IF file.size >= MAX_FILE_SIZE_FOR_PREVIEW THEN "LargeFile"
    ELSE IF file.decodes THEN "Document"
    ELSE "NotFound"

\* the CachedPreview get_preview builds from the data: the content type,
\* then the size test, then Document::open
BuildPreview(data, file) ==
    IF ~data.ok THEN "NotFound"
    ELSE IF data.content_type = "BINARY" THEN "Binary"
    ELSE IF file.size > MAX_FILE_SIZE_FOR_PREVIEW THEN "LargeFile"
    ELSE IF file.decodes THEN "Document"
    ELSE "NotFound"

\* the CachedPreview of a file read into an empty buffer
OpenPreview(file) == BuildPreview(ReadData(<<>>, file), file)

\* the data of a call that opens no file
NoData == [ok |-> FALSE, content_type |-> "NONE"]

\* a hit only for an opened document
CacheHitDocumentOnly(cache, path) ==
    path \in DOMAIN cache /\ cache[path].variant = "Document"

\* preview_cache.contains_key(&path)
CacheHit(cache, path) == path \in DOMAIN cache

\* an insertion pushing every other entry out
CacheInsertEvicting(cache, path, entry) == [q \in {path} |-> entry]

\* preview_cache.insert(path, preview)
CacheInsert(cache, path, entry) ==
    [q \in DOMAIN cache \cup {path} |-> IF q = path THEN entry ELSE cache[q]]

\* Picker::get_preview(PathOrId::Path(path)), called by render_preview for the
\* file of the selection.  language says whether the cached document has a
\* language configuration; a document without one gets a highlight request.
GetPreview(path) ==
    /\ pstate = "open"
    /\ IF path \in documents
       THEN /\ UNCHANGED <<preview_cache, read_buffer>>
            /\ last' = [op |-> "get_preview", path |-> path, opened |-> FALSE,
                        result |-> "EditorDocument", highlight |-> FALSE,
                        data |-> NoData]
       ELSE IF CacheHit(preview_cache, path)
       THEN /\ UNCHANGED <<preview_cache, read_buffer>>
            /\ last' = [op |-> "get_preview", path |-> path, opened |-> FALSE,
                        result |-> preview_cache[path].variant,
                        highlight |-> /\ preview_cache[path].variant = "Document"
                                      /\ ~preview_cache[path].language,
                        data |-> NoData]
       ELSE LET data == ReadData(read_buffer, files[path])
                preview == BuildPreview(data, files[path])
            IN  /\ read_buffer' = data.read_buffer
                /\ preview_cache' = CacheInsert(preview_cache, path,
                                        [variant |-> preview, language |-> FALSE])
                /\ last' = [op |-> "get_preview", path |-> path, opened |-> TRUE,
                            result |-> preview,
                            highlight |-> preview = "Document",
                            data |-> [ok |-> data.ok,
                                      content_type |-> data.content_type]]
    /\ UNCHANGED <<picker_vars, files, documents, dyn_vars, layout_vars, producer_vars, object_vars>>

\* Picker::get_preview(PathOrId::Id(id)): the editor's document, never cached
GetPreviewId(path) ==
    /\ pstate = "open"
    /\ path \in documents
    /\ last' = [op |-> "get_preview_id", path |-> path, opened |-> FALSE,
                result |-> "EditorDocument", highlight |-> FALSE, data |-> NoData]
    /\ UNCHANGED <<picker_vars, preview_vars, dyn_vars, layout_vars, producer_vars, object_vars>>

\* the highlight worker served a request: the cached document gets its
\* language configuration, inside the entry
Highlighted(path) ==
    /\ pstate = "open"
    /\ path \in DOMAIN preview_cache
    /\ preview_cache[path].variant = "Document"
    /\ ~preview_cache[path].language
    /\ preview_cache' = [preview_cache EXCEPT ![path].language = TRUE]
    /\ last' = [op |-> "highlighted", path |-> path]
    /\ UNCHANGED <<picker_vars, files, documents, read_buffer, dyn_vars, layout_vars, producer_vars, object_vars>>

\* the file behind a path is created, removed or rewritten
FileChange(path, file) ==
    /\ file # files[path]
    /\ files' = [files EXCEPT ![path] = file]
    /\ last' = [op |-> "file_change", path |-> path]
    /\ UNCHANGED <<picker_vars, preview_cache, documents, read_buffer, dyn_vars,
                   layout_vars, producer_vars, object_vars>>

\* the editor opens the document of a path
EditorOpen(path) ==
    /\ path \notin documents
    /\ files[path].exists
    /\ documents' = documents \cup {path}
    /\ last' = [op |-> "editor_open", path |-> path]
    /\ UNCHANGED <<picker_vars, preview_cache, files, read_buffer, dyn_vars,
                   layout_vars, producer_vars, object_vars>>

\* the editor closes the document of a path
EditorClose(path) ==
    /\ path \in documents
    /\ documents' = documents \ {path}
    /\ last' = [op |-> "editor_close", path |-> path]
    /\ UNCHANGED <<picker_vars, preview_cache, files, read_buffer, dyn_vars,
                   layout_vars, producer_vars, object_vars>>

PreviewStep ==
    \/ \E path \in Paths : GetPreview(path)
    \/ \E path \in Paths : GetPreviewId(path)
    \/ \E path \in Paths : Highlighted(path)
    \/ \E path \in Paths, file \in FileStates : FileChange(path, file)
    \/ \E path \in Paths : EditorOpen(path)
    \/ \E path \in Paths : EditorClose(path)

----------------------------------------------------------------------------
(* DynamicPicker *)

\* Picker::primary_query: the primary column's pattern, empty when absent
primary_query(q) == QueryGet(q, column_names[primary_column])

RemoveAt(seq, j) == SubSeq(seq, 1, j - 1) \o SubSeq(seq, j + 1, Len(seq))

\* dispatching on any event that finds a new primary pattern
ShouldDispatchAnyEvent(event, dispatched, current) == dispatched # current

\* the test of DynamicPicker::handle_event after it forwarded the event
ShouldDispatch(event, dispatched, current) ==
    event = "IdleTimeout" /\ dispatched # current

\* DynamicPicker::handle_event once file_picker.handle_event has returned:
\* record the primary pattern, call query_callback and hand its future to
\* the jobs
Dispatch(event) ==
    IF ShouldDispatch(event, dyn_query, primary_query(query'))
    THEN /\ Len(jobs) < MaxJobs
         /\ dyn_query' = primary_query(query')
         /\ jobs' = Append(jobs, primary_query(query'))
    ELSE UNCHANGED <<dyn_query, jobs>>

\* an idle time-out: Picker::handle_event ignores it
IdleTimeout ==
    /\ pstate = "open"
    /\ UNCHANGED picker_vars
    /\ Dispatch("IdleTimeout")
    /\ last' = [op |-> "idle_timeout",
                invoked |-> IF jobs' = jobs THEN <<>> ELSE <<jobs'[Len(jobs')]>>]
    /\ UNCHANGED <<preview_vars, layout_vars, producer_vars, object_vars>>

\* the future resolved to a list: the composition callback looks the picker
\* up in the compositor and replaces its options, or returns
JobResolved(j, new_options) ==
    /\ jobs' = RemoveAt(jobs, j)
    /\ IF pstate = "open"
       THEN SetOptions(new_options)
       ELSE /\ UNCHANGED picker_vars
            /\ last' = [op |-> "job_lost", job |-> jobs[j]]
    /\ UNCHANGED <<dyn_query, preview_vars, layout_vars, producer_vars, object_vars>>

\* a failed future throwing the candidates away
OptionsAfterFailureCleared(store) == <<>>

\* what a failed future leaves of the candidates: `new_options.await?`
\* returns before any callback is made
OptionsAfterFailure(store) == store

\* the future failed
JobFailed(j) ==
    /\ jobs' = RemoveAt(jobs, j)
    /\ items' = OptionsAfterFailure(items)
    /\ last' = [op |-> "job_failed", job |-> jobs[j]]
    /\ UNCHANGED <<version, injectors, pattern, snapshot, cleared, cursor,
                   completion_height, line, query, show_preview, pstate,
                   dyn_query, preview_vars, layout_vars, producer_vars, object_vars>>

\* lines the prompt of a DynamicPicker holds after a key: "a " changes the
\* line and leaves the primary pattern at "a", "%k:x" leaves it empty
DynamicLines == { <<>>, <<"a">>, <<"a", " ">>, <<"%", "k", ":", "x">> }

\* the events a DynamicPicker forwards, and the futures it started
DynamicStep ==
    \/ \E new_line \in DynamicLines :
          PromptEvent(new_line) /\ Dispatch("Key")
          /\ UNCHANGED <<preview_vars, layout_vars, producer_vars, object_vars>>
    \/ \E direction \in {Forward} :
          MoveBy(1, direction) /\ Dispatch("Key")
          /\ UNCHANGED <<preview_vars, layout_vars, producer_vars, object_vars>>
    \/ \E key \in {"Esc"} :
          KeyClose(key) /\ Dispatch("Key")
          /\ UNCHANGED <<preview_vars, layout_vars, producer_vars, object_vars>>
    \/ IdleTimeout
    \/ \E j \in 1..Len(jobs), new_options \in OptionLists : JobResolved(j, new_options)
    \/ \E j \in 1..Len(jobs) : JobFailed(j)
    \/ \E k \in {Len(items)} :
          RenderPublish(k) /\ UNCHANGED <<preview_vars, dyn_vars, layout_vars, producer_vars, object_vars>>

----------------------------------------------------------------------------
(* query::parse called on its own *)

\* the state before a call of parse on its own: an empty picker, and the
\* arguments of the call
InitParse ==
    /\ version = 0
    /\ injectors = <<>>
    /\ items = <<>>
    /\ pattern = EmptyPattern
    /\ snapshot = [items |-> <<>>, matched |-> <<>>]
    /\ cleared = FALSE
    /\ cursor = 0
    /\ completion_height = 0
    /\ line = <<>>
    /\ query = <<>>
    /\ show_preview = TRUE
    /\ pstate = "open"
    /\ preview_cache = <<>>
    /\ files = [path \in Paths |-> Missing]
    /\ documents = {}
    /\ read_buffer = <<>>
    /\ file_fn = FALSE
    /\ frame = NoFrame
    /\ in_flight = {}
    /\ walk = NoWalk
    /\ dyn_query = <<>>
    /\ jobs = <<>>
    /\ \E args \in ParseArgs :
          /\ args.primary <= Len(args.names)
          /\ last = [op |-> "parse_args", names |-> args.names,
                     primary |-> args.primary, input |-> args.input]

\* query::parse(column_names, primary_column, input)
ParseCall ==
    /\ last.op = "parse_args"
    /\ last' = [op |-> "parse", names |-> last.names, primary |-> last.primary,
                input |-> last.input,
                result |-> parse(last.names, last.primary, last.input)]
    /\ UNCHANGED <<picker_vars, preview_vars, dyn_vars, layout_vars, producer_vars, object_vars>>

----------------------------------------------------------------------------
(* Specifications *)

\* a step of the Picker used on its own: no preview is rendered and no
\* DynamicPicker wraps it
Alone == UNCHANGED <<preview_vars, dyn_vars, layout_vars, producer_vars, object_vars>>

\* the producers' side: injector handles and their pushes
InjectorStep ==
    \/ NewInjector /\ Alone
    \/ \E i \in 1..Len(injectors) : CloneInjector(i) /\ Alone
    \/ \E i \in 1..Len(injectors), item \in Items : Push(i, item) /\ Alone

\* replacing the candidates and publishing them
MatcherStep ==
    \/ \E new_options \in OptionLists : SetOptions(new_options) /\ Alone
    \/ \E k \in 0..Len(items) : RenderPublish(k) /\ Alone
    \/ \E changed \in BOOLEAN : RenderStale(changed) /\ Alone

\* cursor movement and the prompt
CursorStep ==
    \/ \E amount \in Amounts, direction \in {Forward, Backward} :
          MoveBy(amount, direction) /\ Alone
    \/ PageUp /\ Alone
    \/ PageDown /\ Alone
    \/ ToStart /\ Alone
    \/ ToEnd /\ Alone
    \/ \E height \in Heights : RequiredSize(height) /\ Alone
    \/ \E new_line \in PromptLines : PromptEvent(new_line) /\ Alone

\* selection keys and the end of the picker's life
LifeStep ==
    \/ \E key \in {"Esc", "CtrlC"} : KeyClose(key) /\ Alone
    \/ \E key \in {"Enter", "CtrlS", "CtrlV"} : KeySelect(key) /\ Alone
    \/ KeyAltEnter /\ Alone
    \/ Reopen /\ Alone
    \/ Drop /\ Alone

\* frames drawn for an area
RenderStep ==
    \/ WithPreview
    \/ \E area \in Areas, k \in {Len(items)} : Render(area, k)
    \/ \E area \in Areas, changed \in BOOLEAN : RenderUnpublished(area, changed)

\* pushes of producer threads, step by step
ProducerStep ==
    \/ \E i \in 1..Len(injectors), item \in Items : PushCheck(i, item)
    \/ \E p \in in_flight : PushSubmit(p)

Next ==
    \/ ProducerStep
    \/ RenderStep
    \/ InjectorStep
    \/ MatcherStep
    \/ CursorStep
    \/ LifeStep
    \/ TogglePreview /\ Alone
    \/ PreviewStep
    \/ DynamicStep
    \/ ParseCall

\* the whole picker
Spec == Init /\ [][Next]_vars

\* generation counter, injectors, close and drop; the cursor stays where
\* construction put it and the prompt is not edited
NextGeneration == InjectorStep \/ MatcherStep \/ LifeStep

SpecGeneration == Init /\ [][NextGeneration]_vars

\* the list a query_callback that depends on the query alone returns
QueryResults(q) ==
    IF q = <<"a">> THEN <<2>> ELSE IF q = <<"b">> THEN <<1, 2, 3>> ELSE <<>>

\* lines typed into the prompt of that DynamicPicker
AnswerLines == { <<>>, <<"a">>, <<"b">> }

\* a DynamicPicker whose futures all resolve, in any order, each to the
\* list of its query
NextAnswers ==
    \/ \E new_line \in AnswerLines :
          PromptEvent(new_line) /\ Dispatch("Key")
          /\ UNCHANGED <<preview_vars, layout_vars, producer_vars, object_vars>>
    \/ IdleTimeout
    \/ \E j \in 1..Len(jobs) : JobResolved(j, QueryResults(jobs[j]))
    \/ \E k \in {Len(items)} : RenderPublish(k) /\ Alone

SpecAnswers == Init /\ [][NextAnswers]_vars

\* prompt lines with patterns for the column that is not filtered, and two
\* lines that parse to the same query
QueryLines == { <<>>,
                <<"a">>,
                <<"a", " ">>,
                <<"%", "k", ":", "x">>,
                <<"%", "d", ":", "y">>,
                <<"a", " ", "%", "d", ":", "y">>,
                <<"%", "d", ":", "y", " ", "%", "k", ":", "x">> }

\* the prompt edited with patterns for every column, and the ticks between
NextPrompt ==
    \/ \E new_line \in QueryLines : PromptEvent(new_line) /\ Alone
    \/ \E k \in {Len(items)} : RenderPublish(k) /\ Alone

SpecPrompt == Init /\ [][NextPrompt]_vars

\* producer threads pushing while the picker is closed or dropped
NextRace ==
    \/ ProducerStep
    \/ NewInjector /\ Alone
    \/ \E i \in 1..Len(injectors) : CloneInjector(i) /\ Alone
    \/ \E k \in {Len(items)} : RenderPublish(k) /\ Alone
    \/ \E key \in {"Esc"} : KeyClose(key) /\ Alone
    \/ Drop /\ Alone

SpecRace == Init /\ [][NextRace]_vars

\* the frames of an open picker whose candidates are replaced, whose cursor
\* moves and whose preview is switched on and off
NextRender ==
    \/ RenderStep
    \/ TogglePreview /\ Alone
    \/ \E new_options \in OptionLists : SetOptions(new_options) /\ Alone
    \/ \E direction \in {Forward, Backward} : MoveBy(1, direction) /\ Alone

SpecRender == Init /\ [][NextRender]_vars

\* cursor, prompt and matcher of an open picker; no producer runs
NextCursor == MatcherStep \/ CursorStep

SpecCursor == Init /\ [][NextCursor]_vars

\* selection keys on a picker whose cursor moves
NextSelect ==
    \/ MatcherStep
    \/ LifeStep
    \/ \E direction \in {Forward, Backward} : MoveBy(1, direction) /\ Alone
    \/ ToEnd /\ Alone

SpecSelect == Init /\ [][NextSelect]_vars

\* a tick in which the matcher's run finishes on the whole store
PublishAll == \E k \in {Len(items)} : RenderPublish(k) /\ Alone

\* replacing the candidates while producers may push; each frame renders,
\* and a matcher run over a finite store finishes
NextReplace ==
    \/ MatcherStep
    \/ NewInjector /\ Alone
    \/ \E i \in 1..Len(injectors), item \in Items : Push(i, item) /\ Alone
    \/ ToEnd /\ Alone
    \/ \E key \in {"Esc"} : KeyClose(key) /\ Alone

FairSpecReplace == Init /\ [][NextReplace]_vars /\ WF_vars(PublishAll)

\* previews of an open picker while files and editor documents change
SpecPreview == Init /\ [][PreviewStep]_vars

\* a DynamicPicker: typing, idle time-outs and the futures they start
SpecDynamic == Init /\ [][DynamicStep]_vars

\* calls of select_next_sibling and select_prev_sibling on every range of
\* the text, over each tree
NextSibling ==
    \/ \E next \in BOOLEAN, t \in DOMAIN SyntaxTrees, range \in Ranges :
          SelectSibling(next, t, range)
    \/ SiblingLoop

SpecSibling == Init /\ [][NextSibling]_vars

\* a call that was entered keeps running: the loop is plain sequential code
FairSpecSibling == SpecSibling /\ WF_vars(SiblingLoop)

\* calls of parse on every argument list
SpecParse == InitParse /\ [][ParseCall]_vars

----------------------------------------------------------------------------
(* Claims *)

InjectorIds == 1..Len(injectors)

\* C1: once the picker is dropped, no injector made from it (paired, made by
\* injector(), or cloned) passes the generation check, and every push done
\* after the drop returned InjectorShutdown and submitted nothing.
C1_DroppedPickerShutsInjectors ==
    pstate = "dropped" =>
        /\ \A i \in InjectorIds : ~PushAccepted(injectors[i])
        /\ last.op = "push" => (last.res = "InjectorShutdown" /\ last.submitted = <<>>)

\* a clone was pushed to after the drop
C1_Witness ==
    /\ pstate = "dropped"
    /\ last.op = "push"
    /\ last.inj = 2
    /\ last.res = "InjectorShutdown"

\* C2, as claimed: after set_options no injector obtained before the call
\* passes the generation check.
C2_SetOptionsShutsInjectors ==
    last.op = "set_options" => \A i \in InjectorIds : ~PushAccepted(injectors[i])

\* C2, amended: set_options leaves the generation counter as it is, so every
\* injector passes or fails the generation check exactly as before the call.
C2_SetOptionsKeepsGeneration ==
    [][last'.op = "set_options" =>
          /\ version' = version
          /\ \A i \in InjectorIds :
                (injectors'[i].version = version') = (injectors[i].version = version)
      ]_vars

\* a producer of the replaced candidates pushed after set_options and got Ok
C2_Witness ==
    /\ last.op = "push"
    /\ last.res = "Ok"
    /\ ~injectors[last.inj].live
    /\ pstate = "open"

\* C3: a closing key pressed while the matcher holds at most 100_000 items
\* advances the generation in that event, so no injector obtained before
\* passes the generation check, and pushes to the closed picker are refused.
C3_CloseShutsInjectors ==
    /\ (last.op = "key" /\ last.close
            /\ item_count(snapshot) * ItemWeight <= LARGE_PICKER_THRESHOLD) =>
          \A i \in InjectorIds : ~PushAccepted(injectors[i])
    /\ (pstate = "last" /\ last.op = "push") => last.res = "InjectorShutdown"

\* Esc on a picker of exactly 100_000 items that has an injector
C3_Witness ==
    /\ last.op = "key"
    /\ last.key = "Esc"
    /\ item_count(snapshot) * ItemWeight = LARGE_PICKER_THRESHOLD
    /\ Len(injectors) > 0
    /\ pstate = "last"

\* C4: push returns InjectorShutdown exactly when the injector's generation
\* differs from the counter, and then the store is unchanged; otherwise it
\* returns Ok and hands the item's row to its matcher injector once.
C4_PushChecksGeneration ==
    [][last'.op = "push" =>
          LET inj == injectors[last'.inj] IN
          /\ (last'.res = "InjectorShutdown") = (inj.version # version)
          /\ last'.res \in {"InjectorShutdown", "Ok"}
          /\ last'.res = "InjectorShutdown" => (items' = items /\ last'.submitted = <<>>)
          /\ last'.res = "Ok" =>
                /\ Len(last'.submitted) = 1
                /\ inj.live => items' = Append(items, last'.submitted[1])
                /\ ~inj.live => items' = items
      ]_vars

\* a push refused while the picker is kept as last picker
C4_Witness ==
    /\ last.op = "push"
    /\ last.res = "InjectorShutdown"
    /\ pstate = "last"
    /\ Len(items) > 0

\* C5: the generation counter never decreases, and it changes only in a
\* closing key event or in the drop; push, clone and the rest leave it.
C5_GenerationMonotonic ==
    [][/\ version' >= version
       /\ version' # version =>
             \/ last'.op = "drop"
             \/ last'.op = "key" /\ last'.close
      ]_vars

\* closed, reopened and dropped: the counter went up twice
C5_Witness ==
    /\ version = 2
    /\ pstate = "dropped"
    /\ last.op = "drop"

\* C6: 0 <= cursor < max(1, matched_count) in every state.
C6_CursorInRange ==
    /\ cursor >= 0
    /\ cursor < Max(1, matched_item_count(snapshot))

\* a tick published fewer matches than the cursor's row and clamped it
C6_Witness ==
    /\ last.op = "render"
    /\ last.published
    /\ last.trip # <<>>
    /\ last.trip[1].len > matched_item_count(snapshot)
    /\ cursor = matched_item_count(snapshot) - 1
    /\ cursor > 0

\* the backward move_by that answers a forward one with the same amount
RoundTrip ==
    /\ last.op = "move_by"
    /\ last.direction = Backward
    /\ last.trip # <<>>
    /\ last.trip[1].amount = last.amount
    /\ last.trip[1].len > 0

OptionRows(options) == InjectAll(<<>>, options)

\* C8, as claimed: when the tick after set_options publishes as many items as
\* the new list has, they are the new list and the cursor is in [0, new_len).
C8_CursorBelowNewLen ==
    [][(/\ last.op = "set_options"
        /\ last'.op = "render"
        /\ last'.published
        /\ item_count(snapshot') = Len(last.options))
       => /\ snapshot'.items = OptionRows(last.options)
          /\ cursor' >= 0
          /\ cursor' < Len(last.options)
      ]_vars

\* the snapshot shows exactly the new list and the cursor is on one of its rows
Replaced(options) ==
    /\ ~cleared
    /\ snapshot.items = OptionRows(options)
    /\ cursor >= 0
    /\ cursor < Max(1, Len(options))

\* something else took the place of that set_options call
Superseded(options) ==
    \/ last.op = "set_options" /\ last.options # options
    \/ last.op = "push" /\ last.res = "Ok" /\ injectors[last.inj].live
    \/ pstate # "open"

\* C8, amended: after set_options(options), unless the picker is closed, the
\* options are replaced again or a later injector pushes, the snapshot
\* eventually holds exactly the new list (none of the previous candidates)
\* and the cursor is in [0, max(1, new_len)).
C8_ReplacedEventually ==
    \A options \in OptionLists :
        (last.op = "set_options" /\ last.options = options)
            ~> (Replaced(options) \/ Superseded(options))

\* a tick published the one-item list that replaced the candidates of a
\* picker with a producer
C8_Witness ==
    /\ last.op = "render"
    /\ last.published
    /\ pstate = "open"
    /\ Len(injectors) > 0
    /\ ~injectors[1].live
    /\ Replaced(<<2>>)

\* a character was typed at the end of the prompt
Typed(old_line, new_line) ==
    /\ Len(new_line) = Len(old_line) + 1
    /\ SubSeq(new_line, 1, Len(old_line)) = old_line

DataOf(rows) == {rows[j].data : j \in 1..Len(rows)}

\* the tick after a typed character publishes the same candidates, fewer of
\* them matched, the item selected before among them
RefiningTick ==
    /\ last.op = "prompt"
    /\ Typed(last.old_line, line)
    /\ last.selected # {}
    /\ last'.op = "render"
    /\ last'.published
    /\ snapshot'.items = snapshot.items
    /\ matched_item_count(snapshot') < matched_item_count(snapshot)
    /\ last.selected \subseteq DataOf(snapshot'.matched)

\* C9, as claimed: after the refining tick the item selected before is still
\* the selected item.
C9_SelectionFollowsItem ==
    [][RefiningTick => selection' = last.selected]_vars

\* C9, amended: the refining tick keeps the cursor's index, clamped to the
\* last matched row; the item selected before stays selected when the matched
\* rows up to the cursor are the same as before.
C9_SelectionKeepsIndex ==
    [][RefiningTick =>
          /\ cursor' = Min(cursor, matched_item_count(snapshot') - 1)
          /\ (/\ matched_item_count(snapshot') > cursor
              /\ SubSeq(snapshot'.matched, 1, cursor + 1)
                    = SubSeq(snapshot.matched, 1, cursor + 1))
             => selection' = last.selected
      ]_vars

\* "b" typed with item 2 selected in <<1, 2, 3>>: items 2 and 3 still match,
\* the cursor stays on the second row, which now shows item 3
C9_Witness ==
    /\ last.op = "render"
    /\ last.published
    /\ last.after_prompt # <<>>
    /\ Typed(last.after_prompt[1].old_line, line)
    /\ last.after_prompt[1].selected = {2}
    /\ last.after_prompt[1].cursor = 1
    /\ Len(last.after_prompt[1].matched) = 3
    /\ DataOf(snapshot.matched) = {2, 3}
    /\ cursor = 1

\* C10: with an item selected, Enter / Ctrl-S / Ctrl-V call on_select once
\* with Replace / HorizontalSplit / VerticalSplit and close the picker;
\* Alt-Enter calls it once with Load and leaves the picker open with cursor,
\* query and generation counter unchanged.
C10_SelectionKeys ==
    [][(last'.op = "key" /\ selection # {}) =>
          LET item == CHOOSE x \in selection : TRUE IN
          /\ last'.key = "Enter" =>
                (/\ last'.on_select = << [item |-> item, action |-> "Replace"] >>
                 /\ last'.close /\ pstate' # "open")
          /\ last'.key = "CtrlS" =>
                (/\ last'.on_select = << [item |-> item, action |-> "HorizontalSplit"] >>
                 /\ last'.close /\ pstate' # "open")
          /\ last'.key = "CtrlV" =>
                (/\ last'.on_select = << [item |-> item, action |-> "VerticalSplit"] >>
                 /\ last'.close /\ pstate' # "open")
          /\ last'.key = "AltEnter" =>
                (/\ last'.on_select = << [item |-> item, action |-> "Load"] >>
                 /\ ~last'.close /\ pstate' = "open"
                 /\ cursor' = cursor /\ query' = query /\ version' = version)
      ]_vars

\* Ctrl-V on the second row closed the picker after one VerticalSplit call
C10_Witness ==
    /\ last.op = "key"
    /\ last.key = "CtrlV"
    /\ last.on_select = << [item |-> 2, action |-> "VerticalSplit"] >>
    /\ cursor = 1
    /\ pstate = "last"

\* the candidates the matcher reports, as close_fn counts them
CandidateCount == item_count(snapshot) * ItemWeight

\* C11: a closing key discards the picker (it is not kept as the last
\* picker) when the matcher's item count is greater than 100_000 and keeps
\* it as the last picker when the count is at most 100_000.
C11_ClosePolicy ==
    (last.op = "key" /\ last.close) =>
        /\ CandidateCount > LARGE_PICKER_THRESHOLD => pstate = "dropped"
        /\ CandidateCount <= LARGE_PICKER_THRESHOLD => pstate = "last"

\* a picker of exactly 100_000 candidates was closed and kept
C11_Witness ==
    /\ last.op = "key"
    /\ last.close
    /\ CandidateCount = LARGE_PICKER_THRESHOLD
    /\ pstate = "last"

\* the query handle_prompt_change compared the new one with
PreviousQuery == parse(column_names, primary_column, last.old_line)

\* C12: when a prompt change yields a different query, every filtered
\* column's pattern is pushed with append = true if and only if the new
\* pattern starts with the column's previous pattern, the empty string for a
\* column absent from the previous query.
C12_AppendIffPrefixOfPrevious ==
    (last.op = "prompt" /\ last.reparsed # <<>>) =>
        \A i \in 1..Len(last.reparsed) :
            last.reparsed[i].append <=>
                StartsWith(last.reparsed[i].pattern,
                           QueryGet(PreviousQuery,
                                    Columns[FilteredColumns[i]].name))

\* C13: query_callback is invoked only in the handling of an idle time-out
\* and only when the primary column's pattern differs from the query last
\* dispatched; that pattern is then recorded as last dispatched, so an idle
\* time-out that finds the pattern it recorded invokes nothing, and no other
\* event (a key, a paste, a render, a resolved future) ever invokes it.
C13_DispatchOnIdleOnly ==
    [][/\ (Len(jobs') > Len(jobs) \/ dyn_query' # dyn_query) =>
             /\ last'.op = "idle_timeout"
             /\ dyn_query # primary_query(query)
             /\ dyn_query' = primary_query(query)
             /\ jobs' = Append(jobs, primary_query(query))
             /\ last'.invoked = <<primary_query(query)>>
       /\ (last'.op = "idle_timeout" /\ dyn_query = primary_query(query)) =>
             /\ jobs' = jobs
             /\ dyn_query' = dyn_query
             /\ last'.invoked = <<>>
       /\ last'.op = "idle_timeout" => dyn_query' = primary_query(query')
      ]_vars

\* "a" was dispatched and its future is pending; a space was typed, which
\* changes the line and not the primary pattern; the idle time-out that
\* followed invoked nothing
C13_Witness ==
    /\ last.op = "idle_timeout"
    /\ last.invoked = <<>>
    /\ line = <<"a", " ">>
    /\ dyn_query = <<"a">>
    /\ jobs = << <<"a">> >>

\* C14: when the future of query_callback fails, set_options is not called
\* for it (the store, the injectors and the snapshot stay as they are, and
\* the future is gone) and the picker's candidates, query and cursor are
\* unchanged.
C14_FailureKeepsOptions ==
    [][last'.op = "job_failed" =>
          /\ items' = items
          /\ injectors' = injectors
          /\ snapshot' = snapshot
          /\ cleared' = cleared
          /\ pattern' = pattern
          /\ query' = query
          /\ line' = line
          /\ cursor' = cursor
          /\ Len(jobs') = Len(jobs) - 1
      ]_vars

\* the future for "a" failed on a picker showing three candidates with the
\* cursor on the second row
C14_Witness ==
    /\ last.op = "job_failed"
    /\ last.job = <<"a">>
    /\ primary_query(query) = <<"a">>
    /\ Len(items) = 3
    /\ matched_item_count(snapshot) = 3
    /\ cursor = 1

\* the cached previews that stand for a file not shown
Refused == {"Binary", "LargeFile", "NotFound"}

\* C15: once the cache holds Binary, LargeFile or NotFound for a path, no
\* get_preview call for that path opens or reads the file again, whatever
\* became of the file since.
C15_RefusedPathNotReopened ==
    [][(/\ last'.op = "get_preview"
        /\ last'.path \in DOMAIN preview_cache
        /\ preview_cache[last'.path].variant \in Refused) =>
          /\ ~last'.opened
          /\ last'.result \in {preview_cache[last'.path].variant, "EditorDocument"}
      ]_vars

\* "f" was cached as NotFound while missing; now a readable text file is
\* there, and the preview just requested is still the cached NotFound
C15_Witness ==
    /\ last.op = "get_preview"
    /\ last.path = "f"
    /\ ~last.opened
    /\ last.result = "NotFound"
    /\ OpenPreview(files["f"]) = "Document"

\* C16: a cache entry, once inserted, is never replaced by another variant
\* and never removed; an entry is inserted only by a get_preview call that
\* missed, and the set of cached paths only grows.
C16_CacheOnlyGrows ==
    [][/\ \A path \in DOMAIN preview_cache :
             /\ path \in DOMAIN preview_cache'
             /\ preview_cache'[path].variant = preview_cache[path].variant
       /\ DOMAIN preview_cache' # DOMAIN preview_cache =>
             /\ last'.op = "get_preview"
             /\ last'.opened
             /\ last'.path \notin DOMAIN preview_cache
             /\ DOMAIN preview_cache' = DOMAIN preview_cache \cup {last'.path}
      ]_vars

\* both paths are cached, "f" as a document that has since been
\* highlighted and whose file is gone, "g" inserted by the last call
C16_Witness ==
    /\ DOMAIN preview_cache = Paths
    /\ preview_cache["f"] = [variant |-> "Document", language |-> TRUE]
    /\ files["f"] = Missing
    /\ last.op = "get_preview"
    /\ last.path = "g"
    /\ last.opened

\* C17: every key of the map parse returns is one of the declared column
\* names, for every input and every primary column.
C17_KeysAreColumnNames ==
    last.op = "parse" =>
        \A key \in DOMAIN last.result :
            \E i \in 1..Len(last.names) : last.names[i] = key

\* "%a:b" with columns p, abb, ab: the only key is the declared name ab
C17_Witness ==
    /\ last.op = "parse"
    /\ last.names = << <<"p">>, <<"a", "b", "b">>, <<"a", "b">> >>
    /\ last.input = <<"%", "a", ":", "b">>
    /\ DOMAIN last.result = { <<"a", "b">> }

Spaces(n) == [i \in 1..n |-> " "]

\* C18: parse trims trailing whitespace: one or more spaces appended to
\* the end of any input leave the returned map as it is (so no pattern ends
\* with a space that came from the trailing whitespace).
C18_TrailingSpacesIgnored ==
    last.op = "parse" =>
        \A n \in 1..2 :
            parse(last.names, last.primary, last.input \o Spaces(n)) = last.result

Letters == {"a", "b"}

IsWord(w) == w # <<>> /\ \A i \in 1..Len(w) : w[i] \in Letters

\* the pieces of a text between its separators
RECURSIVE SplitOn(_, _, _)
SplitOn(s, sep, cur) ==
    IF s = <<>> THEN <<cur>>
    ELSE IF Head(s) = sep THEN <<cur>> \o SplitOn(Tail(s), sep, <<>>)
    ELSE SplitOn(Tail(s), sep, Append(cur, Head(s)))

\* %<prefix>:<word> with a prefix of letters (possibly empty)
IsFieldToken(t) ==
    /\ Len(t) >= 3
    /\ t[1] = "%"
    /\ \E k \in 2..(Len(t) - 1) :
          /\ t[k] = ":"
          /\ \A i \in 2..(k - 1) : t[i] \in Letters
          /\ IsWord(SubSeq(t, k + 1, Len(t)))

Colon(t) == CHOOSE k \in 2..(Len(t) - 1) : t[k] = ":"

TokenPrefix(t) == SubSeq(t, 2, Colon(t) - 1)

TokenWord(t) == IF IsWord(t) THEN t ELSE SubSeq(t, Colon(t) + 1, Len(t))

\* the input is words and field tokens separated by single spaces
Tokens(input) == SplitOn(input, " ", <<>>)

WellFormed(input) ==
    \A i \in 1..Len(Tokens(input)) :
        IsWord(Tokens(input)[i]) \/ IsFieldToken(Tokens(input)[i])

\* the declared names that begin with a prefix, and the shortest of them
Beginning(names, prefix) ==
    { names[i] : i \in { j \in 1..Len(names) : StartsWith(names[j], prefix) } }

Shortest(names, prefix) ==
    { n \in Beginning(names, prefix) :
        \A m \in Beginning(names, prefix) : Len(n) <= Len(m) }

\* C19: a field token %<prefix>: sends the word that follows it to the
\* column whose declared name begins with <prefix>, and to the one with the
\* shortest name when several names begin with it.
C19_FieldTokenPicksShortest ==
    (last.op = "parse" /\ WellFormed(last.input)) =>
        \A i \in 1..Len(Tokens(last.input)) :
            LET t == Tokens(last.input)[i] IN
            (IsFieldToken(t) /\ Beginning(last.names, TokenPrefix(t)) # {}) =>
                \E n \in Shortest(last.names, TokenPrefix(t)) :
                    /\ n \in DOMAIN last.result
                    /\ \E j \in 1..Len(Tokens(last.result[n])) :
                          Tokens(last.result[n])[j] = TokenWord(t)
                    /\ Len(Tokens(last.input)) = 1 =>
                          last.result = [c \in {n} |-> TokenWord(t)]

\* "%a:b" with columns p, abb, ab: abb and ab begin with a, and ab, the
\* shorter, declared after abb, gets the word
C19_Witness ==
    /\ last.op = "parse"
    /\ last.names = << <<"p">>, <<"a", "b", "b">>, <<"a", "b">> >>
    /\ last.primary = 1
    /\ last.input = <<"%", "a", ":", "b">>
    /\ last.result = [c \in { <<"a", "b">> } |-> <<"b">>]

\* the column a token is assigned to, when the names leave no choice
TokenColumns(names, primary, t) ==
    IF IsWord(t) \/ Beginning(names, TokenPrefix(t)) = {}
    THEN {names[primary]}
    ELSE Shortest(names, TokenPrefix(t))

Unambiguous(names, primary, input) ==
    \A i \in 1..Len(Tokens(input)) :
        Cardinality(TokenColumns(names, primary, Tokens(input)[i])) = 1

ColumnOf(names, primary, t) == CHOOSE n \in TokenColumns(names, primary, t) : TRUE

\* the words of the tokens of one column, in input order, one space between
JoinedWords(names, primary, input, column) ==
    LET mine == SelectSeq(Tokens(input),
                          LAMBDA t : ColumnOf(names, primary, t) = column)
    IN  JoinTokens([j \in 1..Len(mine) |-> TokenWord(mine[j])])

\* C20: when several tokens of an input are assigned to the same column
\* (the primary one included), that column's pattern is those tokens'
\* words joined by exactly one space each, in the order of the input.
C20_SameColumnJoinedInOrder ==
    (/\ last.op = "parse"
     /\ WellFormed(last.input)
     /\ Unambiguous(last.names, last.primary, last.input)) =>
        /\ DOMAIN last.result =
              { ColumnOf(last.names, last.primary, Tokens(last.input)[i]) :
                  i \in 1..Len(Tokens(last.input)) }
        /\ \A column \in DOMAIN last.result :
              last.result[column] =
                  JoinedWords(last.names, last.primary, last.input, column)

\* "%a:a b %ab:b" with columns p, abb, ab: the first and the third token
\* both go to ab, around a word of the primary column
C20_Witness ==
    /\ last.op = "parse"
    /\ last.names = << <<"p">>, <<"a", "b", "b">>, <<"a", "b">> >>
    /\ last.primary = 1
    /\ last.input = <<"%", "a", ":", "a", " ", "b", " ", "%", "a", "b", ":", "b">>
    /\ last.result = [c \in { <<"p">>, <<"a", "b">> } |->
                         IF c = <<"p">> THEN <<"b">> ELSE <<"a", " ", "b">>]

\* does the text contain the character
Has(s, ch) == \E i \in 1..Len(s) : s[i] = ch

\* a text with every run of spaces reduced to one space and none at its ends
Collapse(s) ==
    LET pieces == SelectSeq(Tokens(s), LAMBDA t : t # <<>>)
    IN  IF pieces = <<>> THEN <<>> ELSE JoinTokens(pieces)

Escaped(ch) == IF ch \in {"%", "\""} THEN <<ch>> ELSE <<"\\", ch>>

\* a word of letters, or nothing
IsLetters(w) == \A i \in 1..Len(w) : w[i] \in Letters

\* C22: a character that follows a backslash is handled in the escaped
\* state, which lasts for that one character: '%' and '"' are inserted
\* without the backslash and have no syntactic effect, every other
\* character is inserted preceded by its backslash. So an input of letters
\* with one escaped character in it is the primary pattern with that
\* character inserted so.
C22_EscapedCharacterInserted ==
    last.op = "parse" =>
        \A k \in 1..(Len(last.input) - 1) :
            (/\ last.input[k] = "\\"
             /\ IsLetters(SubSeq(last.input, 1, k - 1))
             /\ IsLetters(SubSeq(last.input, k + 2, Len(last.input)))) =>
                last.result =
                    [c \in { last.names[last.primary] } |->
                        SubSeq(last.input, 1, k - 1)
                        \o Escaped(last.input[k + 1])
                        \o SubSeq(last.input, k + 2, Len(last.input))]

\* C23: when the prefix of a field token %<prefix>: begins no declared
\* name, the word after the colon is added to the primary column's pattern
\* and the map gets no key that is not a declared name.
C23_UnmatchedPrefixGoesToPrimary ==
    (last.op = "parse" /\ WellFormed(last.input)) =>
        \A i \in 1..Len(Tokens(last.input)) :
            LET t == Tokens(last.input)[i]
                primary_field == last.names[last.primary]
            IN
            (IsFieldToken(t) /\ Beginning(last.names, TokenPrefix(t)) = {}) =>
                /\ primary_field \in DOMAIN last.result
                /\ \E j \in 1..Len(Tokens(last.result[primary_field])) :
                      Tokens(last.result[primary_field])[j] = TokenWord(t)
                /\ \A key \in DOMAIN last.result :
                      \E n \in 1..Len(last.names) : last.names[n] = key
                /\ Len(Tokens(last.input)) = 1 =>
                      last.result = [c \in {primary_field} |-> TokenWord(t)]

\* "a %b:b" with columns p, abb, ab and primary column abb: no name begins
\* with b, and the word joins the primary pattern
C23_Witness ==
    /\ last.op = "parse"
    /\ last.names = << <<"p">>, <<"a", "b", "b">>, <<"a", "b">> >>
    /\ last.primary = 2
    /\ last.input = <<"a", " ", "%", "b", ":", "b">>
    /\ last.result = [c \in { <<"a", "b", "b">> } |-> <<"a", " ", "b">>]

\* C25: text that comes after a space and is not introduced by a field
\* token goes to the primary column, never to the column of an earlier
\* field token: when an input without quotes and backslashes ends with a
\* space and a word, that word is the last word of the primary pattern.
C25_TextAfterSpaceGoesToPrimary ==
    (/\ last.op = "parse"
     /\ ~Has(last.input, "\"")
     /\ ~Has(last.input, "\\")) =>
        \A k \in 1..(Len(last.input) - 1) :
            (/\ last.input[k] = " "
             /\ IsWord(SubSeq(last.input, k + 1, Len(last.input)))) =>
                LET primary_field == last.names[last.primary] IN
                /\ primary_field \in DOMAIN last.result
                /\ Tokens(last.result[primary_field])
                       [Len(Tokens(last.result[primary_field]))]
                   = SubSeq(last.input, k + 1, Len(last.input))

\* C24: for every matched count len > 0, every cursor < len and every
\* amount n, move_by(n, Forward) sets the cursor to (cursor + n) mod len and
\* move_by(n, Backward) sets it to (cursor + len - n) mod len, a modular
\* difference also when n > cursor + len; with len = 0 the cursor stays.
C24_MoveByIsModular ==
    [][ (last'.op = "move_by" /\ (last'.len > 0 => cursor < last'.len)) =>
            cursor' = IF last'.len = 0 THEN cursor
                      ELSE IF last'.direction = Forward
                           THEN (cursor + last'.amount) % last'.len
                           ELSE (cursor + last'.len - last'.amount) % last'.len
      ]_vars

\* C26 as stated: every handle, returned by injector() or produced by
\* cloning, holds the value the generation counter has at the moment the
\* handle is produced.
C26_HandleHoldsCurrentGeneration ==
    [][ last'.op \in {"injector", "clone"} =>
            injectors'[last'.inj].version = version ]_vars

\* C26 amended: a handle returned by injector() holds the counter's value
\* of that moment; a clone holds the value its source handle holds, whatever
\* the counter is by then; and a push through any handle fails once the
\* counter differs from the value the handle holds.
C26_CloneCopiesHeldGeneration ==
    [][ /\ last'.op = "injector" =>
              injectors'[last'.inj].version = version
        /\ last'.op = "clone" =>
              injectors'[last'.inj].version = injectors[last'.from].version
        /\ (last'.op = "push" /\ injectors[last'.inj].version # version) =>
              last'.res = "InjectorShutdown"
      ]_vars

\* a clone made of a handle of an earlier generation
C26_Witness ==
    /\ last.op = "clone"
    /\ injectors[last.inj].version < version
    /\ injectors[last.inj].version = injectors[last.from].version

\* C27: the read buffer is empty whenever get_preview returns, whatever
\* came of opening the file, reading its metadata and reading its first
\* bytes, so the content type found is that of the previewed file's bytes.
C27_ReadBufferEmptyOnReturn ==
    last.op \in {"get_preview", "get_preview_id"} =>
        /\ read_buffer = <<>>
        /\ last.data.ok =>
              last.data.content_type = inspect(FirstBytes(files[last.path]))

C29_SplitFromMinimumWidth ==
    (last.op = "render" /\ frame # NoFrame) =>
        IF show_preview /\ file_fn /\ frame.area.width >= 72
        THEN /\ frame.preview
             /\ frame.picker_width = frame.area.width \div 2
             /\ frame.preview_width = frame.area.width - frame.picker_width
        ELSE /\ ~frame.preview
             /\ frame.picker_width = frame.area.width

\* C30: in every frame the page offset is cursor - (cursor mod max(1, rows));
\* offset <= cursor, the cursor's row is in [offset, offset + rows) when
\* rows > 0, and offset <= end <= matched count for the range requested.
C30_ViewportWithinMatched ==
    (last.op = "render" /\ frame # NoFrame) =>
        /\ frame.rows = Rows(frame.area.height)
        /\ frame.offset = cursor - (cursor % Max(1, frame.rows))
        /\ frame.offset <= cursor
        /\ frame.rows > 0 => (frame.offset <= cursor /\ cursor < frame.offset + frame.rows)
        /\ frame.offset <= frame.end
        /\ frame.end <= matched_item_count(snapshot)

\* a frame of two rows with the cursor on the third of three matched items:
\* the page starts at the cursor and ends with the list
C30_Witness ==
    /\ last.op = "render"
    /\ frame.rows = 2
    /\ cursor = 2
    /\ matched_item_count(snapshot) = 3
    /\ frame.offset = 2
    /\ frame.end = 3

\* C31 as stated: under every interleaving of a producer's push with the
\* increment of the generation counter (close or drop), the check and the
\* submission of one push are not separated by an increment: when a push
\* submits its item the counter still has the value the handle holds.
C31_NoSubmissionAfterIncrement ==
    [][ last'.op = "push_submit" => injectors[last'.inj].version = version ]_vars

\* C31 amended: a push checks the counter once, before it submits.  A push
\* whose check reads a counter that differs from the handle's value fails
\* and submits nothing; a push whose check passed submits its one item,
\* also when the counter is incremented in between; and a handle of an
\* older generation gets no new push in flight, so after an increment each
\* handle submits at most the one item of the push it had in flight.
C31_OnlyPushesInFlightSubmit ==
    [][ /\ last'.op = "push_check" =>
              /\ (last'.res = "passed") = (injectors[last'.inj].version = version)
              /\ items' = items
              /\ last'.res = "InjectorShutdown" => in_flight' = in_flight
        /\ last'.op = "push_submit" =>
              /\ \E p \in in_flight : p.inj = last'.inj /\ in_flight' = in_flight \ {p}
              /\ Len(items') <= Len(items) + 1
        /\ \A i \in 1..Len(injectors) :
              injectors[i].version # version =>
                  { p \in in_flight' : p.inj = i } \subseteq { p \in in_flight : p.inj = i }
        /\ \A i \in 1..Len(injectors) :
              Cardinality({ p \in in_flight' : p.inj = i }) <= 1
      ]_vars

\* a push passed its check, the picker was closed and kept as last picker,
\* and the push then put its item into the matcher's store
C31_Witness ==
    /\ last.op = "push_submit"
    /\ injectors[last.inj].version < version
    /\ injectors[last.inj].live
    /\ pstate = "last"
    /\ Len(items) > 0
    /\ items[Len(items)] = last.submitted[1]

\* C32: when query_callback was dispatched for q1 and later for q2 and both
\* futures have resolved successfully, in whichever order, the candidates
\* are the list returned for q2: once no future is pending, the store holds
\* the list of the query dispatched last.
C32_LatestQueryWins ==
    (pstate = "open" /\ last.op = "set_options" /\ jobs = <<>>) =>
        items = OptionRows(QueryResults(dyn_query))

\* C33: when no item is selected, Enter, Ctrl-S and Ctrl-V do not invoke
\* on_select and still close the picker; Alt-Enter neither invokes
\* on_select nor changes any state of the picker; Esc and Ctrl-C close the
\* picker and never invoke on_select, selection or not.
C33_KeysWithoutSelection ==
    [][ last'.op = "key" =>
          /\ (last'.key \in {"Enter", "CtrlS", "CtrlV"} /\ selection = {}) =>
                (/\ last'.on_select = <<>>
                 /\ last'.close
                 /\ pstate' # "open")
          /\ (last'.key = "AltEnter" /\ selection = {}) =>
                (/\ last'.on_select = <<>>
                 /\ ~last'.close
                 /\ picker_vars' = picker_vars)
          /\ last'.key \in {"Esc", "CtrlC"} =>
                (/\ last'.on_select = <<>>
                 /\ last'.close
                 /\ pstate' # "open")
      ]_vars

\* Enter on a picker that has candidates in its store and none matched yet:
\* no call of on_select, and the picker is closed and kept as last picker
C33_Witness ==
    /\ last.op = "key"
    /\ last.key = "Enter"
    /\ last.on_select = <<>>
    /\ matched_item_count(snapshot) = 0
    /\ Len(items) > 0
    /\ pstate = "last"

\* the k-th column with filter = true, counted in declaration order
KthFiltered(k) ==
    CHOOSE c \in 1..Len(Columns) :
        /\ Columns[c].filter
        /\ Cardinality({ b \in 1..c : Columns[b].filter }) = k

\* C34: on a query change the pattern of the k-th column with filter = true
\* is reparsed at matcher column k, where ingestion stores that column's
\* text; a pattern parsed for a column with filter = false is kept in the
\* picker's query and is not sent to the matcher; and when the parsed query
\* equals the stored one no reparse is issued.
C34_ReparseAtIngestionIndex ==
    [][ last'.op = "prompt" =>
          LET new_query == parse(column_names, primary_column, line')
              filtered == { c \in 1..Len(Columns) : Columns[c].filter }
          IN
          /\ query' = new_query
          /\ new_query = query => (last'.reparsed = <<>> /\ pattern' = pattern)
          /\ new_query # query =>
                /\ Len(last'.reparsed) = Cardinality(filtered)
                /\ Len(pattern') = Cardinality(filtered)
                /\ \A k \in 1..Cardinality(filtered) :
                      /\ last'.reparsed[k].column = k
                      /\ last'.reparsed[k].pattern =
                            QueryGet(new_query, Columns[KthFiltered(k)].name)
                      /\ pattern'[k] = last'.reparsed[k].pattern
                      /\ \A item \in Items :
                            MatcherRow(item).matcher_columns[k] =
                                ItemText(item, KthFiltered(k))
      ]_vars

\* "%d:y %k:x": the pattern y of the unfiltered column d is in the query
\* only, and x, for the third declared column k, is at matcher column 2
C34_Witness ==
    /\ last.op = "prompt"
    /\ line = <<"%", "d", ":", "y", " ", "%", "k", ":", "x">>
    /\ QueryGet(query, <<"d">>) = <<"y">>
    /\ QueryGet(query, <<"k">>) = <<"x">>
    /\ pattern = << <<>>, <<"x">> >>
    /\ Len(last.reparsed) = 2

AncestorsOrSelf(tree, n) ==
    LET RECURSIVE Up(_)
        Up(m) == IF m = 0 THEN {} ELSE {m} \cup Up(tree.parent[m])
    IN  Up(n)

Depth(tree, n) == Cardinality(AncestorsOrSelf(tree, n))

\* the siblings directly after (next) or before n among its parent's children
SiblingsOf(next, tree, n) ==
    { m \in Nodes(tree) :
        /\ tree.parent[n] # 0
        /\ \E i, j \in DOMAIN tree.children[tree.parent[n]] :
              /\ tree.children[tree.parent[n]][i] = n
              /\ tree.children[tree.parent[n]][j] = m
              /\ j = IF next THEN i + 1 ELSE i - 1 }

C35_Selected ==
    walk.pc = "done" =>
       LET tree    == SyntaxTrees[walk.tree]
           chain   == AncestorsOrSelf(tree, walk.start)
           withSib == { n \in chain : SiblingsOf(walk.next, tree, n) # {} }
       IN  IF withSib = {}
           THEN walk.result = walk.range
           ELSE \E n \in withSib :
                   /\ \A m \in withSib : Depth(tree, m) <= Depth(tree, n)
                   /\ \E s \in SiblingsOf(walk.next, tree, n) :
                         /\ walk.result.anchor \in {byte_to_char(tree.start[s]), byte_to_char(tree.end[s])}
                         /\ walk.result.head \in {byte_to_char(tree.start[s]), byte_to_char(tree.end[s])}
                         /\ walk.result.anchor # walk.result.head
                         /\ range_direction(walk.result) = range_direction(walk.range)

C35_Bounded ==
    walk.pc \in {"loop", "done"} =>
       walk.climbed < Depth(SyntaxTrees[walk.tree], walk.start)

\* C35: a call of select_next_sibling (resp. select_prev_sibling) on a range
\* always returns, after climbing fewer levels than the depth of the node the
\* cursor was reset to; it returns the span of the next (resp. previous)
\* sibling of the deepest node, among that node and its ancestors, that has
\* one, in the direction of the given range, and the given range itself when
\* none of them has such a sibling.
C35_SiblingOfNearest ==
    /\ [](C35_Selected /\ C35_Bounded)
    /\ (walk.pc = "loop") ~> (walk.pc = "done")

\* a backward range on a node two levels below the nearest node with a next
\* sibling has been moved to that sibling
C35_Witness ==
    /\ walk.pc = "done"
    /\ walk.next
    /\ walk.climbed = 2
    /\ range_direction(walk.range) = "Backward"
    /\ walk.result # walk.range
    /\ range_direction(walk.result) = "Backward"


====
